---- MODULE Spec2Model ----
(***************************************************************************)
(* A model of the worker pool of src/threadpool.h and src/unnamed/part_000 *)
(* (class Thread, class ThreadPool).  One controller thread configures,    *)
(* starts and destroys the pool, client threads call submitTask, and every *)
(* std::thread launched by Thread::start runs ThreadPool::threadFunc.      *)
(* The mutex taskQueMtx_ and the three condition variables are explicit.   *)
(***************************************************************************)
EXTENDS Integers, Sequences, FiniteSets, TLC

\* ------------------------------------------------------------------ bounds
\* number of submitTask calls made over the life of the pool
MaxTasks == 2
\* number of client threads that call submitTask
NumClients == 2
\* largest argument given to start
MaxInit == 1
\* largest positive queue limit given to setTaskQueMaxThreshHold
MaxQueLimit == 1
\* largest thread limit given to setThreadSizeThreshHold
MaxThreadLimit == 1
\* number of times the controller calls start on the same pool
MaxStarts == 2

\* ------------------------------------------------------- program constants
TASK_MAX_THRESHHOLD == 2147483647
THREAD_MAX_THRESHHOLD == 1024
\* the empty std::function a worker holds before it claims a task
NoTask == 0

PoolMode == {"MODE_FIXED", "MODE_CACHED"}
Tasks == 1 .. MaxTasks
Clients == 1 .. NumClients
\* every std::thread the pool can launch: start launches at most MaxInit,
\* each submitTask call at most one
MaxOSThreads == MaxInit + MaxTasks
Slots == 1 .. MaxOSThreads
\* arguments the setters are called with
QueLimits == 1 .. MaxQueLimit
ThreadLimits == 0 .. MaxThreadLimit

\* owners of taskQueMtx_
Free == <<"free">>
Main == <<"main">>
C(c) == <<"client", c>>
W(s) == <<"worker", s>>

VARIABLES
    poolMode_, taskQueMaxThreshHold_, threadSizeThreshHold_,
    initThreadSize_, curThreadSize_, idleThreadSize_, taskSize_,
    isPoolRunning_, taskQue_, threads_, generateId_,
    mtx, main, wk, nOS, cl, nextTask, execCount, handle, enqueued, crashed,
    ids

cfgVars == <<poolMode_, taskQueMaxThreshHold_, threadSizeThreshHold_>>
cntVars == <<initThreadSize_, curThreadSize_, idleThreadSize_, taskSize_>>
taskVars == <<nextTask, execCount, handle, enqueued>>
vars == <<poolMode_, taskQueMaxThreshHold_, threadSizeThreshHold_,
          initThreadSize_, curThreadSize_, idleThreadSize_, taskSize_,
          isPoolRunning_, taskQue_, threads_, generateId_,
          mtx, main, wk, nOS, cl, nextTask, execCount, handle, enqueued,
          crashed, ids>>

\* ----------------------------------------------------------------- helpers
\* taskQue_.size() < (size_t)taskQueMaxThreshHold_ : the cast maps a negative
\* int t to 2^64 + t, which is above every queue length
BelowThreshHold(size, t) == IF t < 0 THEN TRUE ELSE size < t

\* a queue that grows at the wrong end
PushFront(q, t) == <<t>> \o q

\* taskQue_.emplace(task) : std::queue adds at the back
Push(q, t) == Append(q, t)

\* front() taken without the pop() that must follow it
PopNothing(q) == q

\* taskQue_.pop() : std::queue removes the front element
Pop(q) == Tail(q)

\* an idle timeout that forgets the floor initThreadSize_
ReclaimableNoFloor(long) == long

\* dur.count() >= THREAD_MAX_IDLE_TIME && curThreadSize_ > initThreadSize_
Reclaimable(long) == long /\ curThreadSize_ > initThreadSize_

\* threads_.erase(threadid)
Erase(m, id) == [k \in (DOMAIN m) \ {id} |-> m[k]]

\* threads_.emplace(threadId, std::move(ptr)) : keeps an entry already there
Emplace(m, id) ==
    IF id \in DOMAIN m THEN m
    ELSE [k \in (DOMAIN m) \cup {id} |-> IF k = id THEN "thread" ELSE m[k]]

\* notEmpty_.notify_all() : every worker blocked on notEmpty_ becomes runnable
NotifyNotEmpty(w) ==
    [s \in Slots |-> IF w[s].pc \in {"wait", "twait"}
                     THEN [w[s] EXCEPT !.pc = "woken"] ELSE w[s]]

\* notFull_.notify_all() : every submitter blocked on notFull_ becomes runnable
NotifyNotFull(c) ==
    [k \in Clients |-> IF c[k].pc = "sWait"
                       THEN [c[k] EXCEPT !.pc = "sWoken"] ELSE c[k]]

\* exitCond_.notify_all() : the destructor, if blocked on exitCond_
NotifyExit(m) == IF m.pc = "dWait" THEN [m EXCEPT !.pc = "dWoken"] ELSE m

\* Thread::start : std::thread t(func_, threadId_); t.detach()
Launch(w, n, id) ==
    [w EXCEPT ![n + 1] = [pc |-> "lock", id |-> id, task |-> NoTask,
                          idleLong |-> FALSE]]

\* ------------------------------------------------------------------- Init
Init ==
    /\ poolMode_ = "MODE_FIXED"
    /\ taskQueMaxThreshHold_ = TASK_MAX_THRESHHOLD
    /\ threadSizeThreshHold_ = THREAD_MAX_THRESHHOLD
    /\ initThreadSize_ = 0
    /\ curThreadSize_ = 0
    /\ idleThreadSize_ = 0
    /\ taskSize_ = 0
    /\ isPoolRunning_ = FALSE
    /\ taskQue_ = <<>>
    /\ threads_ = <<>>
    /\ generateId_ = 0
    /\ ids = <<>>
    /\ mtx = Free
    /\ main = [pc |-> "config", n |-> 0, i |-> 0, id |-> 0, started |-> FALSE,
              starts |-> 0]
    /\ wk = [s \in Slots |-> [pc |-> "none", id |-> 0, task |-> NoTask,
                              idleLong |-> FALSE]]
    /\ nOS = 0
    /\ cl = [c \in Clients |-> [pc |-> "idle", task |-> NoTask, id |-> 0]]
    /\ nextTask = 1
    /\ execCount = [t \in Tasks |-> 0]
    /\ handle = [t \in Tasks |-> "none"]
    /\ enqueued = <<>>
    /\ crashed = FALSE

\* ------------------------------------------------- controller: the setters
\* a setMode that does not look at isPoolRunning_
setModeUnchecked(m) ==
    /\ ~crashed
    /\ main.pc \in {"config", "run"}
    /\ poolMode_' = m
    /\ UNCHANGED <<taskQueMaxThreshHold_, threadSizeThreshHold_, cntVars,
                   isPoolRunning_, taskQue_, threads_, generateId_, ids, mtx,
                   main, wk, nOS, cl, taskVars, crashed>>

\* ThreadPool::setMode
setMode(m) ==
    /\ ~crashed
    /\ main.pc \in {"config", "run"}
    /\ poolMode_' = IF isPoolRunning_ THEN poolMode_ ELSE m
    /\ UNCHANGED <<taskQueMaxThreshHold_, threadSizeThreshHold_, cntVars,
                   isPoolRunning_, taskQue_, threads_, generateId_, ids, mtx, main,
                   wk, nOS, cl, taskVars, crashed>>

\* ThreadPool::setTaskQueMaxThreshHold
setTaskQueMaxThreshHold(t) ==
    /\ ~crashed
    /\ main.pc \in {"config", "run"}
    /\ taskQueMaxThreshHold_' = IF isPoolRunning_ THEN taskQueMaxThreshHold_ ELSE t
    /\ UNCHANGED <<poolMode_, threadSizeThreshHold_, cntVars,
                   isPoolRunning_, taskQue_, threads_, generateId_, ids, mtx, main,
                   wk, nOS, cl, taskVars, crashed>>

\* ThreadPool::setThreadSizeThreshHold
setThreadSizeThreshHold(t) ==
    /\ ~crashed
    /\ main.pc \in {"config", "run"}
    /\ threadSizeThreshHold_' =
           IF isPoolRunning_ THEN threadSizeThreshHold_
           ELSE IF poolMode_ = "MODE_CACHED" THEN t
           ELSE threadSizeThreshHold_
    /\ UNCHANGED <<poolMode_, taskQueMaxThreshHold_, cntVars,
                   isPoolRunning_, taskQue_, threads_, generateId_, ids, mtx, main,
                   wk, nOS, cl, taskVars, crashed>>

\* ---------------------------------------------------- controller: start(n)
\* the controller calls start(n): isPoolRunning_ = true
StartCall(n) ==
    /\ ~crashed
    /\ main.pc = "config"
    /\ isPoolRunning_' = TRUE
    /\ main' = [main EXCEPT !.pc = "s105", !.n = n, !.i = 0, !.starts = 1]
    /\ UNCHANGED <<cfgVars, cntVars, taskQue_, threads_, generateId_, ids, mtx,
                   wk, nOS, cl, taskVars, crashed>>

\* initThreadSize_ = initThreadSize
StartInit ==
    /\ ~crashed
    /\ main.pc = "s105"
    /\ initThreadSize_' = main.n
    /\ main' = [main EXCEPT !.pc = "s106"]
    /\ UNCHANGED <<cfgVars, curThreadSize_, idleThreadSize_, taskSize_,
                   isPoolRunning_, taskQue_, threads_, generateId_, ids, mtx,
                   wk, nOS, cl, taskVars, crashed>>

\* curThreadSize_ = initThreadSize
StartCur ==
    /\ ~crashed
    /\ main.pc = "s106"
    /\ curThreadSize_' = main.n
    /\ main' = [main EXCEPT !.pc = "s107"]
    /\ UNCHANGED <<cfgVars, initThreadSize_, idleThreadSize_, taskSize_,
                   isPoolRunning_, taskQue_, threads_, generateId_, ids, mtx,
                   wk, nOS, cl, taskVars, crashed>>

\* idleThreadSize_ = initThreadSize
StartIdle ==
    /\ ~crashed
    /\ main.pc = "s107"
    /\ idleThreadSize_' = main.n
    /\ main' = [main EXCEPT !.pc = "s110", !.i = 0]
    /\ UNCHANGED <<cfgVars, initThreadSize_, curThreadSize_, taskSize_,
                   isPoolRunning_, taskQue_, threads_, generateId_, ids, mtx,
                   wk, nOS, cl, taskVars, crashed>>

\* first loop, head: i < initThreadSize_ enters the body, where the Thread
\* constructor reads generateId_ (a plain static int, read and written
\* without any lock by start); otherwise the second loop follows
StartThread ==
    /\ ~crashed
    /\ main.pc = "s110"
    /\ main' = IF main.i < initThreadSize_
               THEN [main EXCEPT !.pc = "s120", !.id = generateId_]
               ELSE [main EXCEPT !.pc = "s123", !.i = 0]
    /\ UNCHANGED <<cfgVars, cntVars, isPoolRunning_, taskQue_, threads_,
                   generateId_, ids, mtx, wk, nOS, cl, taskVars, crashed>>

\* first loop, body: the constructor writes the incremented id back, and the
\* Thread is emplaced under the id it read
StartCreate ==
    /\ ~crashed
    /\ main.pc = "s120"
    /\ generateId_' = main.id + 1
    /\ ids' = Append(ids, main.id)
    /\ threads_' = Emplace(threads_, main.id)
    /\ main' = [main EXCEPT !.pc = "s110", !.i = main.i + 1]
    /\ UNCHANGED <<cfgVars, cntVars, isPoolRunning_, taskQue_, mtx,
                   wk, nOS, cl, taskVars, crashed>>

\* second loop: threads_[i]->start().  operator[] on a key that is absent
\* inserts a null unique_ptr; calling Thread::start through it reads func_
\* through a null pointer and the process is killed.
StartLaunch ==
    /\ ~crashed
    /\ main.pc = "s123"
    /\ IF main.i < initThreadSize_
       THEN IF main.i \in DOMAIN threads_ /\ threads_[main.i] = "thread"
            THEN /\ wk' = Launch(wk, nOS, main.i)
                 /\ nOS' = nOS + 1
                 /\ main' = [main EXCEPT !.i = main.i + 1]
                 /\ UNCHANGED <<threads_, crashed>>
            ELSE /\ threads_' = [k \in (DOMAIN threads_) \cup {main.i} |->
                                   IF k = main.i THEN "null" ELSE threads_[k]]
                 /\ crashed' = TRUE
                 /\ UNCHANGED <<wk, nOS, main>>
       ELSE /\ main' = [main EXCEPT !.pc = "run", !.i = 0, !.started = TRUE]
            /\ UNCHANGED <<wk, nOS, threads_, crashed>>
    /\ UNCHANGED <<cfgVars, cntVars, isPoolRunning_, taskQue_, generateId_, ids,
                   mtx, cl, taskVars>>

\* -------------------------------------------- controller: the destructor
\* isPoolRunning_ = false (before the lock is taken)
DtorStop ==
    /\ ~crashed
    /\ main.pc \in {"config", "run"}
    /\ isPoolRunning_' = FALSE
    /\ main' = [main EXCEPT !.pc = "d53"]
    /\ UNCHANGED <<cfgVars, cntVars, taskQue_, threads_, generateId_, ids, mtx,
                   wk, nOS, cl, taskVars, crashed>>

\* std::unique_lock<std::mutex> lock(taskQueMtx_), and the lock taken again
\* when exitCond_.wait is woken
DtorLock ==
    /\ ~crashed
    /\ main.pc \in {"d53", "dWoken"}
    /\ mtx = Free
    /\ mtx' = Main
    /\ main' = [main EXCEPT !.pc = IF main.pc = "d53" THEN "d55" ELSE "d57"]
    /\ UNCHANGED <<cfgVars, cntVars, isPoolRunning_, taskQue_, threads_,
                   generateId_, ids, wk, nOS, cl, taskVars, crashed>>

\* a destructor that takes the lock but wakes nobody
DtorNotifyNothing ==
    /\ ~crashed
    /\ main.pc = "d55"
    /\ main' = [main EXCEPT !.pc = "d57"]
    /\ UNCHANGED <<cfgVars, cntVars, isPoolRunning_, taskQue_, threads_,
                   generateId_, ids, mtx, wk, nOS, cl, taskVars, crashed>>

\* notEmpty_.notify_all()
DtorNotify ==
    /\ ~crashed
    /\ main.pc = "d55"
    /\ wk' = NotifyNotEmpty(wk)
    /\ main' = [main EXCEPT !.pc = "d57"]
    /\ UNCHANGED <<cfgVars, cntVars, isPoolRunning_, taskQue_, threads_,
                   generateId_, ids, mtx, nOS, cl, taskVars, crashed>>

\* an exit wait that returns without looking at threads_
DtorWaitNoPredicate ==
    /\ ~crashed
    /\ main.pc = "d57"
    /\ mtx' = Free
    /\ main' = [main EXCEPT !.pc = "done"]
    /\ UNCHANGED <<cfgVars, cntVars, isPoolRunning_, taskQue_, threads_,
                   generateId_, ids, wk, nOS, cl, taskVars, crashed>>

\* exitCond_.wait(lock, threads_.size() == 0): with the lock held, return when
\* the predicate holds (the lock is released as the destructor ends), block
\* on exitCond_ (releasing the lock) when it does not
DtorWait ==
    /\ ~crashed
    /\ main.pc = "d57"
    /\ mtx' = Free
    /\ main' = [main EXCEPT !.pc = IF DOMAIN threads_ = {} THEN "done" ELSE "dWait"]
    /\ UNCHANGED <<cfgVars, cntVars, isPoolRunning_, taskQue_, threads_,
                   generateId_, ids, wk, nOS, cl, taskVars, crashed>>

\* a spurious wakeup of exitCond_.wait, which the standard allows
DtorSpurious ==
    /\ ~crashed
    /\ main.pc = "dWait"
    /\ main' = [main EXCEPT !.pc = "dWoken"]
    /\ UNCHANGED <<cfgVars, cntVars, isPoolRunning_, taskQue_, threads_,
                   generateId_, ids, mtx, wk, nOS, cl, taskVars, crashed>>

\* ------------------------------------------------ workers: threadFunc
\* std::unique_lock<std::mutex> lock(taskQueMtx_) at the top of the loop, and
\* the lock taken again when a wait on notEmpty_ ends
WorkerLock(s) ==
    /\ ~crashed
    /\ wk[s].pc \in {"lock", "woken", "timedout"}
    /\ mtx = Free
    /\ mtx' = W(s)
    /\ wk' = [wk EXCEPT ![s].pc = IF wk[s].pc = "timedout" THEN "expiry" ELSE "loop"]
    /\ UNCHANGED <<cfgVars, cntVars, isPoolRunning_, taskQue_, threads_,
                   generateId_, ids, main, nOS, cl, taskVars, crashed>>

\* while (taskQue_.size() == 0) with the pool stopped: erase self, notify
\* exitCond_, return
WorkerExit(s) ==
    /\ ~crashed
    /\ wk[s].pc = "loop"
    /\ Len(taskQue_) = 0
    /\ ~isPoolRunning_
    /\ threads_' = Erase(threads_, wk[s].id)
    /\ main' = NotifyExit(main)
    /\ mtx' = Free
    /\ wk' = [wk EXCEPT ![s].pc = "exited"]
    /\ UNCHANGED <<cfgVars, cntVars, isPoolRunning_, taskQue_, generateId_, ids,
                   nOS, cl, taskVars, crashed>>

\* while (taskQue_.size() == 0) with the pool running: notEmpty_.wait_for(1s)
\* in cached mode, notEmpty_.wait in fixed mode; both release the lock
WorkerWait(s) ==
    /\ ~crashed
    /\ wk[s].pc = "loop"
    /\ Len(taskQue_) = 0
    /\ isPoolRunning_
    /\ mtx' = Free
    /\ wk' = [wk EXCEPT ![s].pc = IF poolMode_ = "MODE_CACHED" THEN "twait" ELSE "wait"]
    /\ UNCHANGED <<cfgVars, cntVars, isPoolRunning_, taskQue_, threads_,
                   generateId_, ids, main, nOS, cl, taskVars, crashed>>

\* a claim whose lock_guard scope also encloses task()
WorkerClaimKeepsLock(s) ==
    /\ ~crashed
    /\ wk[s].pc = "loop"
    /\ Len(taskQue_) > 0
    /\ idleThreadSize_' = idleThreadSize_ - 1
    /\ taskQue_' = Pop(taskQue_)
    /\ taskSize_' = taskSize_ - 1
    /\ wk' = LET w1 == [wk EXCEPT ![s].pc = "exec", ![s].task = Head(taskQue_)]
             IN IF Len(taskQue_) > 1 THEN NotifyNotEmpty(w1) ELSE w1
    /\ cl' = NotifyNotFull(cl)
    /\ UNCHANGED <<cfgVars, initThreadSize_, curThreadSize_, isPoolRunning_,
                   threads_, generateId_, ids, mtx, main, nOS, taskVars,
                   crashed>>

\* the queue is not empty: idleThreadSize_--, take the front task, pop,
\* taskSize_--, notify notEmpty_ if tasks remain, notify notFull_, unlock
WorkerClaim(s) ==
    /\ ~crashed
    /\ wk[s].pc = "loop"
    /\ Len(taskQue_) > 0
    /\ idleThreadSize_' = idleThreadSize_ - 1
    /\ taskQue_' = Pop(taskQue_)
    /\ taskSize_' = taskSize_ - 1
    /\ wk' = LET w1 == [wk EXCEPT ![s].pc = "exec", ![s].task = Head(taskQue_)]
             IN IF Len(taskQue_) > 1 THEN NotifyNotEmpty(w1) ELSE w1
    /\ cl' = NotifyNotFull(cl)
    /\ mtx' = Free
    /\ UNCHANGED <<cfgVars, initThreadSize_, curThreadSize_, isPoolRunning_,
                   threads_, generateId_, ids, main, nOS, taskVars, crashed>>

\* notEmpty_.wait_for returns cv_status::timeout; by then the thread may have
\* been idle for THREAD_MAX_IDLE_TIME seconds, and stays so until it runs a task
WorkerTimeout(s) ==
    /\ ~crashed
    /\ wk[s].pc = "twait"
    /\ \E long \in {wk[s].idleLong, TRUE} :
           wk' = [wk EXCEPT ![s].pc = "timedout", ![s].idleLong = long]
    /\ UNCHANGED <<cfgVars, cntVars, isPoolRunning_, taskQue_, threads_,
                   generateId_, ids, mtx, main, nOS, cl, taskVars, crashed>>

\* a spurious wakeup of a wait on notEmpty_, which the standard allows
WorkerSpurious(s) ==
    /\ ~crashed
    /\ wk[s].pc \in {"wait", "twait"}
    /\ wk' = [wk EXCEPT ![s].pc = "woken"]
    /\ UNCHANGED <<cfgVars, cntVars, isPoolRunning_, taskQue_, threads_,
                   generateId_, ids, mtx, main, nOS, cl, taskVars, crashed>>

\* after a timeout, with the lock held: dur >= THREAD_MAX_IDLE_TIME and
\* curThreadSize_ > initThreadSize_ reclaims the thread (erase, both counters
\* decremented, return); otherwise back to the head of the while loop
WorkerExpiry(s) ==
    /\ ~crashed
    /\ wk[s].pc = "expiry"
    /\ IF Reclaimable(wk[s].idleLong)
       THEN /\ threads_' = Erase(threads_, wk[s].id)
            /\ curThreadSize_' = curThreadSize_ - 1
            /\ idleThreadSize_' = idleThreadSize_ - 1
            /\ mtx' = Free
            /\ wk' = [wk EXCEPT ![s].pc = "reclaimed"]
       ELSE /\ wk' = [wk EXCEPT ![s].pc = "loop"]
            /\ UNCHANGED <<threads_, curThreadSize_, idleThreadSize_, mtx>>
    /\ UNCHANGED <<cfgVars, initThreadSize_, taskSize_, isPoolRunning_,
                   taskQue_, generateId_, ids, main, nOS, cl, taskVars, crashed>>

\* task() outside the lock: the packaged_task runs the caller's callable and
\* makes its future ready
WorkerExec(s) ==
    /\ ~crashed
    /\ wk[s].pc = "exec"
    /\ execCount' = IF wk[s].task # NoTask
                    THEN [execCount EXCEPT ![wk[s].task] = @ + 1]
                    ELSE execCount
    /\ wk' = [wk EXCEPT ![s].pc = "post"]
    /\ UNCHANGED <<cfgVars, cntVars, isPoolRunning_, taskQue_, threads_,
                   generateId_, ids, mtx, main, nOS, cl, nextTask, handle,
                   enqueued, crashed>>

\* idleThreadSize_++ and lastTime = now, outside the lock; the Task object of
\* this iteration is destroyed and the loop starts over
WorkerIdle(s) ==
    /\ ~crashed
    /\ wk[s].pc = "post"
    /\ idleThreadSize_' = idleThreadSize_ + 1
    /\ wk' = [wk EXCEPT ![s].pc = "lock", ![s].task = NoTask, ![s].idleLong = FALSE]
    /\ UNCHANGED <<cfgVars, initThreadSize_, curThreadSize_, taskSize_,
                   isPoolRunning_, taskQue_, threads_, generateId_, ids, mtx, main,
                   nOS, cl, taskVars, crashed>>

\* ------------------------------------------------ clients: submitTask
\* the cached-mode growth test made right after the enqueue
NeedsThread(tasks) ==
    /\ poolMode_ = "MODE_CACHED"
    /\ tasks > idleThreadSize_
    /\ curThreadSize_ < threadSizeThreshHold_

\* a client calls submitTask: the callable is bound into a packaged_task and
\* its future taken.  No call starts once the destructor has been entered.
SubmitCall(c) ==
    /\ ~crashed
    /\ cl[c].pc = "idle"
    /\ nextTask <= MaxTasks
    /\ main.pc \notin {"d53", "d55", "d57", "dWait", "dWoken", "done"}
    /\ cl' = [cl EXCEPT ![c] = [pc |-> "sLock", task |-> nextTask, id |-> 0]]
    /\ nextTask' = nextTask + 1
    /\ UNCHANGED <<cfgVars, cntVars, isPoolRunning_, taskQue_, threads_,
                   generateId_, ids, mtx, main, wk, nOS, execCount, handle,
                   enqueued, crashed>>

\* std::unique_lock<std::mutex> lock(taskQueMtx_), and the lock taken again
\* when the wait on notFull_ is notified or times out
SubmitLock(c) ==
    /\ ~crashed
    /\ cl[c].pc \in {"sLock", "sWoken", "sTimedOut"}
    /\ mtx = Free
    /\ mtx' = C(c)
    /\ cl' = [cl EXCEPT ![c].pc = IF cl[c].pc = "sTimedOut" THEN "sLast" ELSE "sPred"]
    /\ UNCHANGED <<cfgVars, cntVars, isPoolRunning_, taskQue_, threads_,
                   generateId_, ids, main, wk, nOS, taskVars, crashed>>

\* notFull_.wait_for with the predicate false: block on notFull_, lock released
SubmitWait(c) ==
    /\ ~crashed
    /\ cl[c].pc = "sPred"
    /\ ~BelowThreshHold(Len(taskQue_), taskQueMaxThreshHold_)
    /\ mtx' = Free
    /\ cl' = [cl EXCEPT ![c].pc = "sWait"]
    /\ UNCHANGED <<cfgVars, cntVars, isPoolRunning_, taskQue_, threads_,
                   generateId_, ids, main, wk, nOS, taskVars, crashed>>

\* the one second of notFull_.wait_for runs out
SubmitTimeout(c) ==
    /\ ~crashed
    /\ cl[c].pc = "sWait"
    /\ cl' = [cl EXCEPT ![c].pc = "sTimedOut"]
    /\ UNCHANGED <<cfgVars, cntVars, isPoolRunning_, taskQue_, threads_,
                   generateId_, ids, mtx, main, wk, nOS, taskVars, crashed>>

\* a spurious wakeup of the wait on notFull_
SubmitSpurious(c) ==
    /\ ~crashed
    /\ cl[c].pc = "sWait"
    /\ cl' = [cl EXCEPT ![c].pc = "sWoken"]
    /\ UNCHANGED <<cfgVars, cntVars, isPoolRunning_, taskQue_, threads_,
                   generateId_, ids, mtx, main, wk, nOS, taskVars, crashed>>

\* a rejection that runs the caller's packaged_task instead of the one that
\* returns Rtype() (the inner variable has the same name, task)
SubmitRejectRunsCallable(c) ==
    /\ ~crashed
    /\ cl[c].pc = "sLast"
    /\ ~BelowThreshHold(Len(taskQue_), taskQueMaxThreshHold_)
    /\ handle' = [handle EXCEPT ![cl[c].task] = "default"]
    /\ execCount' = [execCount EXCEPT ![cl[c].task] = @ + 1]
    /\ mtx' = Free
    /\ cl' = [cl EXCEPT ![c] = [pc |-> "idle", task |-> NoTask, id |-> 0]]
    /\ UNCHANGED <<cfgVars, cntVars, isPoolRunning_, taskQue_, threads_,
                   generateId_, ids, main, wk, nOS, nextTask, enqueued, crashed>>

\* the wait timed out and the predicate is still false: a packaged_task that
\* returns Rtype() is run on the spot and its future returned; the lock is
\* released on return
SubmitReject(c) ==
    /\ ~crashed
    /\ cl[c].pc = "sLast"
    /\ ~BelowThreshHold(Len(taskQue_), taskQueMaxThreshHold_)
    /\ handle' = [handle EXCEPT ![cl[c].task] = "default"]
    /\ mtx' = Free
    /\ cl' = [cl EXCEPT ![c] = [pc |-> "idle", task |-> NoTask, id |-> 0]]
    /\ UNCHANGED <<cfgVars, cntVars, isPoolRunning_, taskQue_, threads_,
                   generateId_, ids, main, wk, nOS, nextTask, execCount, enqueued,
                   crashed>>

\* the predicate holds: taskQue_.emplace, taskSize_++, notEmpty_.notify_all();
\* then either the growth branch is entered or the future is returned
SubmitEnqueue(c) ==
    /\ ~crashed
    /\ cl[c].pc \in {"sPred", "sLast"}
    /\ BelowThreshHold(Len(taskQue_), taskQueMaxThreshHold_)
    /\ taskQue_' = Push(taskQue_, cl[c].task)
    /\ taskSize_' = taskSize_ + 1
    /\ enqueued' = Append(enqueued, cl[c].task)
    /\ wk' = NotifyNotEmpty(wk)
    /\ IF NeedsThread(taskSize_ + 1)
       THEN /\ cl' = [cl EXCEPT ![c].pc = "sGrow"]
            /\ UNCHANGED <<mtx, handle>>
       ELSE /\ cl' = [cl EXCEPT ![c] = [pc |-> "idle", task |-> NoTask, id |-> 0]]
            /\ handle' = [handle EXCEPT ![cl[c].task] = "own"]
            /\ mtx' = Free
    /\ UNCHANGED <<cfgVars, initThreadSize_, curThreadSize_, idleThreadSize_,
                   isPoolRunning_, threads_, generateId_, ids, main, nOS, nextTask,
                   execCount, crashed>>

\* growth, the Thread constructor reads generateId_
SubmitThread(c) ==
    /\ ~crashed
    /\ cl[c].pc = "sGrow"
    /\ cl' = [cl EXCEPT ![c].pc = "sMake", ![c].id = generateId_]
    /\ UNCHANGED <<cfgVars, cntVars, isPoolRunning_, taskQue_, threads_,
                   generateId_, ids, mtx, main, wk, nOS, taskVars, crashed>>

\* growth: the constructor writes the incremented id back, the Thread is
\* emplaced under the id it read, and threads_[threadId]->start() is called
SubmitGrow(c) ==
    /\ ~crashed
    /\ cl[c].pc = "sMake"
    /\ generateId_' = cl[c].id + 1
    /\ ids' = Append(ids, cl[c].id)
    /\ threads_' = Emplace(threads_, cl[c].id)
    /\ wk' = Launch(wk, nOS, cl[c].id)
    /\ nOS' = nOS + 1
    /\ cl' = [cl EXCEPT ![c].pc = "sCur"]
    /\ UNCHANGED <<cfgVars, cntVars, isPoolRunning_, taskQue_, mtx, main,
                   taskVars, crashed>>

\* curThreadSize_++
SubmitCur(c) ==
    /\ ~crashed
    /\ cl[c].pc = "sCur"
    /\ curThreadSize_' = curThreadSize_ + 1
    /\ cl' = [cl EXCEPT ![c].pc = "sIdle"]
    /\ UNCHANGED <<cfgVars, initThreadSize_, idleThreadSize_, taskSize_,
                   isPoolRunning_, taskQue_, threads_, generateId_, ids, mtx, main,
                   wk, nOS, taskVars, crashed>>

\* idleThreadSize_++, then return result; the lock is released on return
SubmitIdle(c) ==
    /\ ~crashed
    /\ cl[c].pc = "sIdle"
    /\ idleThreadSize_' = idleThreadSize_ + 1
    /\ handle' = [handle EXCEPT ![cl[c].task] = "own"]
    /\ mtx' = Free
    /\ cl' = [cl EXCEPT ![c] = [pc |-> "idle", task |-> NoTask, id |-> 0]]
    /\ UNCHANGED <<cfgVars, initThreadSize_, curThreadSize_, taskSize_,
                   isPoolRunning_, taskQue_, threads_, generateId_, ids, main, wk,
                   nOS, nextTask, execCount, enqueued, crashed>>

\* ------------------------------------------------------------------- Next
Controller ==
    \/ \E m \in PoolMode : setMode(m)
    \/ \E t \in QueLimits : setTaskQueMaxThreshHold(t)
    \/ \E t \in ThreadLimits : setThreadSizeThreshHold(t)
    \/ \E n \in 0 .. MaxInit : StartCall(n)
    \/ StartInit
    \/ StartCur
    \/ StartIdle
    \/ StartThread
    \/ StartCreate
    \/ StartLaunch
    \/ DtorStop
    \/ DtorLock
    \/ DtorNotify
    \/ DtorWait

Worker(s) ==
    \/ WorkerLock(s)
    \/ WorkerExit(s)
    \/ WorkerWait(s)
    \/ WorkerClaim(s)
    \/ WorkerTimeout(s)
    \/ WorkerExpiry(s)
    \/ WorkerExec(s)
    \/ WorkerIdle(s)

Client(c) ==
    \/ SubmitCall(c)
    \/ SubmitLock(c)
    \/ SubmitWait(c)
    \/ SubmitTimeout(c)
    \/ SubmitReject(c)
    \/ SubmitEnqueue(c)
    \/ SubmitThread(c)
    \/ SubmitGrow(c)
    \/ SubmitCur(c)
    \/ SubmitIdle(c)

Spurious ==
    \/ DtorSpurious
    \/ \E s \in Slots : WorkerSpurious(s)
    \/ \E c \in Clients : SubmitSpurious(c)

Next ==
    \/ Controller
    \/ \E s \in Slots : Worker(s)
    \/ \E c \in Clients : Client(c)
    \/ Spurious

Spec == Init /\ [][Next]_vars

\* ------------------------------------------- the pool in ordinary use
\* The pool as main.cpp uses it: configured before anything else happens,
\* started, given tasks only once start has returned, then destroyed.  The
\* initial states are states Spec reaches through the setters.
LiveInit ==
    /\ poolMode_ \in PoolMode
    /\ taskQueMaxThreshHold_ \in {TASK_MAX_THRESHHOLD} \cup QueLimits
    /\ threadSizeThreshHold_ = THREAD_MAX_THRESHHOLD
    /\ initThreadSize_ = 0
    /\ curThreadSize_ = 0
    /\ idleThreadSize_ = 0
    /\ taskSize_ = 0
    /\ isPoolRunning_ = FALSE
    /\ taskQue_ = <<>>
    /\ threads_ = <<>>
    /\ generateId_ = 0
    /\ ids = <<>>
    /\ mtx = Free
    /\ main = [pc |-> "config", n |-> 0, i |-> 0, id |-> 0, started |-> FALSE,
              starts |-> 0]
    /\ wk = [s \in Slots |-> [pc |-> "none", id |-> 0, task |-> NoTask,
                              idleLong |-> FALSE]]
    /\ nOS = 0
    /\ cl = [c \in Clients |-> [pc |-> "idle", task |-> NoTask, id |-> 0]]
    /\ nextTask = 1
    /\ execCount = [t \in Tasks |-> 0]
    /\ handle = [t \in Tasks |-> "none"]
    /\ enqueued = <<>>
    /\ crashed = FALSE

\* start(n): a fixed pool is given at least one thread; a cached pool may
\* start with none and create threads on demand
LiveStartCall(n) == (poolMode_ = "MODE_FIXED" => n >= 1) /\ StartCall(n)

\* submitTask called on a pool whose start has returned
LiveSubmitCall(c) == main.pc = "run" /\ SubmitCall(c)

\* the destructor of a pool whose start has returned
LiveDtorStop == main.pc = "run" /\ DtorStop

\* the steps a thread inside start or inside the destructor goes on to take
ControllerRuns ==
    \/ StartInit
    \/ StartCur
    \/ StartIdle
    \/ StartThread
    \/ StartCreate
    \/ StartLaunch
    \/ DtorLock
    \/ DtorNotify
    \/ DtorWait

\* the steps a thread inside submitTask goes on to take
ClientRuns(c) ==
    \/ SubmitLock(c)
    \/ SubmitWait(c)
    \/ SubmitTimeout(c)
    \/ SubmitReject(c)
    \/ SubmitEnqueue(c)
    \/ SubmitThread(c)
    \/ SubmitGrow(c)
    \/ SubmitCur(c)
    \/ SubmitIdle(c)

LiveNext ==
    \/ \E n \in 0 .. MaxInit : LiveStartCall(n)
    \/ LiveDtorStop
    \/ ControllerRuns
    \/ \E s \in Slots : Worker(s)
    \/ \E c \in Clients : LiveSubmitCall(c)
    \/ \E c \in Clients : ClientRuns(c)

\* Fair scheduling: a thread that can take a step again and again takes it
\* (a mutex is granted to each contender eventually, a timed wait expires).
\* Nothing obliges a client to call submitTask, the controller to call start
\* or the destructor, or a wait to wake spuriously.
Fairness ==
    /\ SF_vars(ControllerRuns)
    /\ \A s \in Slots : SF_vars(Worker(s))
    /\ \A c \in Clients : SF_vars(ClientRuns(c))

LiveSpec == LiveInit /\ [][LiveNext]_vars /\ Fairness

\* ------------------------------------------- start called a second time
\* start(n) called on a pool whose start has already returned: the code has
\* no test for it, isPoolRunning_ = true is stored again and the body runs.
\* The call is made at most MaxStarts - 1 times, and only while a slot is left
\* for every thread that this call and the submitTask calls still to come can
\* launch.
StartAgain(n) ==
    /\ ~crashed
    /\ main.pc = "run"
    /\ main.starts < MaxStarts
    /\ nOS + n + (MaxTasks - (nextTask - 1))
           + Cardinality({c \in Clients : cl[c].pc # "idle"}) <= MaxOSThreads
    /\ isPoolRunning_' = TRUE
    /\ main' = [main EXCEPT !.pc = "s105", !.n = n, !.i = 0,
                             !.starts = main.starts + 1]
    /\ UNCHANGED <<cfgVars, cntVars, taskQue_, threads_, generateId_, ids,
                   mtx, wk, nOS, cl, taskVars, crashed>>

RestartNext ==
    \/ LiveNext
    \/ \E n \in 0 .. MaxInit : StartAgain(n)

RestartSpec == LiveInit /\ [][RestartNext]_vars

\* ------------------------------------------------------------ vocabulary
\* start has returned and the destructor has not been entered
Started == main.pc = "run"
\* start has returned (the destructor may have been entered since)
AfterStart == main.started
\* the destructor has been entered
ShuttingDown == main.pc \in {"d53", "d55", "d57", "dWait", "dWoken"}
Range(q) == {q[k] : k \in DOMAIN q}
\* tasks some worker has taken out of the queue
Dequeued == Range(enqueued) \ Range(taskQue_)
\* number of task bodies that have run
NumExecuted == Cardinality({t \in Tasks : execCount[t] > 0})
\* worker threads that are running threadFunc
Alive == {s \in Slots : wk[s].pc \notin {"none", "exited", "reclaimed"}}

\* C2: in the state in which the destructor returns, the live worker set is
\* empty, no worker is executing a task and every dequeued task has completed
C2_DtorReturnsDrained ==
    [][(main.pc # "done" /\ main'.pc = "done") =>
          /\ DOMAIN threads_' = {}
          /\ \A s \in Slots : wk'[s].pc # "exec"
          /\ \A t \in Dequeued' : execCount'[t] = 1]_vars

\* the destructor of a started pool has returned after workers took tasks
\* out of the queue; one worker left at shutdown, another was reclaimed
C2_Witness ==
    /\ main.pc = "done"
    /\ main.started
    /\ Dequeued # {}
    /\ \E s \in Slots : wk[s].pc = "exited"
    /\ \E s \in Slots : wk[s].pc = "reclaimed"

\* C3: a task is held by at most one worker, is out of the queue while held,
\* appears at most once in the queue, and its body runs at most once
C3_AtMostOnce ==
    /\ \A t \in Tasks : execCount[t] <= 1
    /\ \A s1, s2 \in Slots :
           (wk[s1].task # NoTask /\ wk[s1].task = wk[s2].task) => s1 = s2
    /\ \A s \in Slots : wk[s].task \notin Range(taskQue_)
    /\ \A s \in Slots :
           (wk[s].pc = "exec" /\ wk[s].task # NoTask) => execCount[wk[s].task] = 0
    /\ \A i, j \in DOMAIN taskQue_ : taskQue_[i] = taskQue_[j] => i = j
    /\ \A t \in Range(taskQue_) : execCount[t] = 0

\* one task is queued, one worker is at the head of its loop with the lock
\* and another worker is contending for the lock, while a third task-holder
\* shows a claim has already happened
C3_Witness ==
    /\ Len(taskQue_) = 1
    /\ \E s1, s2 \in Slots :
           /\ s1 # s2
           /\ wk[s1].pc = "loop"
           /\ mtx = W(s1)
           /\ wk[s2].pc \in {"lock", "woken", "timedout"}
    /\ \E s \in Slots : wk[s].pc = "exec"

\* C5: the k-th task claimed is the k-th task enqueued, and on a fixed pool
\* with a single worker thread the k-th task completed is the k-th enqueued
C5_Fifo ==
    [][/\ \A s \in Slots :
              (wk[s].pc = "loop" /\ wk'[s].pc = "exec") =>
                  wk'[s].task = enqueued[Len(enqueued) - Len(taskQue_) + 1]
       /\ \A t \in Tasks :
              (execCount'[t] > execCount[t] /\ poolMode_ = "MODE_FIXED" /\ nOS = 1) =>
                  t = enqueued[NumExecuted + 1]]_vars

\* a fixed pool with one worker thread has completed two tasks that were
\* enqueued in the order opposite to the order of their submitTask calls
C5_Witness ==
    /\ poolMode_ = "MODE_FIXED"
    /\ nOS = 1
    /\ Len(enqueued) >= 2
    /\ enqueued[1] > enqueued[2]
    /\ NumExecuted = Len(enqueued)

\* C6: the queue never holds more tasks than taskQueMaxThreshHold_
C6_QueueBounded == Len(taskQue_) <= taskQueMaxThreshHold_

\* C7: whenever the queue lock is held, 0 <= idle_threads <= current_threads
C7_IdleWithinCurrent ==
    mtx # Free => (0 <= idleThreadSize_ /\ idleThreadSize_ <= curThreadSize_)

\* C8: in cached mode, after start, current_threads <= max_threads
C8_CurrentWithinLimit ==
    (poolMode_ = "MODE_CACHED" /\ AfterStart) => curThreadSize_ <= threadSizeThreshHold_

\* C9: a rejected submission never runs the callable, returns a handle that
\* already holds the default value, and changes neither the queue, the
\* counters nor the live worker set
C9_RejectLeavesPoolAlone ==
    /\ [](\A t \in Tasks : handle[t] = "default" =>
              (execCount[t] = 0 /\ t \notin Range(enqueued)
               /\ \A s \in Slots : wk[s].task # t))
    /\ [][\A c \in Clients :
              (cl[c].pc = "sLast" /\ cl'[c].pc = "idle" /\ Len(taskQue_) > 0
               /\ ~BelowThreshHold(Len(taskQue_), taskQueMaxThreshHold_)) =>
                  /\ handle'[cl[c].task] = "default"
                  /\ UNCHANGED <<taskQue_, taskSize_, idleThreadSize_,
                                 curThreadSize_, threads_, nOS>>]_vars

\* one submission has been rejected and handed the default value while a
\* task that was accepted has run
C9_Witness ==
    /\ \E t \in Tasks : handle[t] = "default"
    /\ \E t \in Tasks : handle[t] = "own" /\ execCount[t] = 1

\* C10: in cached mode, between start and shutdown, neither current_threads
\* nor the number of live workers is below initial_count
C10_NeverBelowFloor ==
    (poolMode_ = "MODE_CACHED" /\ Started) =>
        /\ curThreadSize_ >= initThreadSize_
        /\ Cardinality(DOMAIN threads_) >= initThreadSize_
        /\ Cardinality(Alive) >= initThreadSize_

\* a cached pool with a floor of one thread is back at its floor: one worker
\* has been reclaimed, and another that timed out after a long idle spell is
\* at the reclaim test with the count already at the floor
C10_Witness ==
    /\ poolMode_ = "MODE_CACHED"
    /\ Started
    /\ initThreadSize_ >= 1
    /\ curThreadSize_ = initThreadSize_
    /\ \E s1, s2 \in Slots :
           /\ wk[s1].pc = "reclaimed"
           /\ wk[s2].pc = "expiry"
           /\ wk[s2].idleLong

\* C1: once the destructor of a started pool has been entered, it returns
C1_DtorTerminates == (AfterStart /\ ShuttingDown) ~> (main.pc = "done")

\* C4: a task accepted by a started pool is eventually executed and the
\* handle its submitTask call returned holds that task's own result
C4_AcceptedRuns ==
    \A t \in Tasks :
        (Started /\ t \in Range(enqueued)) ~> (execCount[t] = 1 /\ handle[t] = "own")

\* C11: while isPoolRunning_ is true no step changes the mode, the queue limit
\* or the thread limit (a setter called on a running pool changes nothing),
\* and while the mode is not cached no step changes the thread limit
C11_ConfigFrozen ==
    [][/\ isPoolRunning_ => UNCHANGED cfgVars
       /\ poolMode_ # "MODE_CACHED" => UNCHANGED threadSizeThreshHold_]_vars

\* a pool configured through all three setters (the thread limit while the
\* mode was cached, the mode then set back to fixed) is running, with the
\* controller free to call the setters again
C11_Witness ==
    /\ isPoolRunning_
    /\ main.pc = "run"
    /\ poolMode_ = "MODE_FIXED"
    /\ taskQueMaxThreshHold_ \in QueLimits
    /\ threadSizeThreshHold_ \in ThreadLimits

\* C12: whatever Workers were constructed before, as long as their ids are
\* all different, start never kills the process, and every thread its second
\* loop starts is for a Worker that has no thread yet, so that each Worker
\* start constructed gets exactly one thread and no other Worker gets one
C12_StartLaunchesItsWorkers ==
    [][(main.pc = "s123" /\ \A i, j \in DOMAIN ids : ids[i] = ids[j] => i = j) =>
          /\ ~crashed'
          /\ \A s \in Slots :
                 (wk[s].pc = "none" /\ wk'[s].pc # "none" /\ main' # main) =>
                     \A s2 \in Slots :
                         wk[s2].pc = "none" \/ wk[s2].id # wk'[s].id]_vars

\* the controller is inside a call of start made after start has returned
InSecondStart ==
    /\ main.started
    /\ main.pc \in {"s105", "s106", "s107", "s110", "s120", "s123"}

\* C13: start called on a running pool changes neither running, the three
\* thread counts, the live worker set nor the threads launched
C13_SecondStartRejected ==
    [][(InSecondStart /\ (main' # main \/ crashed' # crashed)) =>
          /\ ~crashed'
          /\ UNCHANGED <<isPoolRunning_, initThreadSize_, curThreadSize_,
                         idleThreadSize_, threads_, nOS>>]_vars

\* C14: no two Thread objects ever constructed have the same id (so an id
\* that left the live set is never inserted again)
C14_UniqueIds == \A i, j \in DOMAIN ids : ids[i] = ids[j] => i = j

\* a step taken by the client c inside submitTask, with the lock held
SubmitStep(c) == mtx = C(c) /\ cl'[c] # cl[c]

\* C15: submitTask enters the growth branch only in cached mode with, right
\* after the enqueue, queued_tasks > idle_threads and current_threads <
\* max_threads; the branch adds one Worker to the live set, starts one
\* thread and adds 1 to current_threads and to idle_threads; outside the
\* branch submitTask changes none of them
C15_GrowthByOne ==
    [][\A c \in Clients : SubmitStep(c) =>
          /\ cl'[c].pc = "sGrow" =>
                 /\ poolMode_ = "MODE_CACHED"
                 /\ taskSize_' > idleThreadSize_
                 /\ curThreadSize_ < threadSizeThreshHold_
          /\ cl[c].pc = "sMake" =>
                 /\ nOS' = nOS + 1
                 /\ Cardinality(DOMAIN threads_') = Cardinality(DOMAIN threads_) + 1
                 /\ wk'[nOS'].id \in (DOMAIN threads_') \ (DOMAIN threads_)
                 /\ UNCHANGED <<curThreadSize_, idleThreadSize_>>
          /\ cl[c].pc = "sCur" =>
                 /\ curThreadSize_' = curThreadSize_ + 1
                 /\ UNCHANGED <<idleThreadSize_, threads_, nOS>>
          /\ cl[c].pc = "sIdle" =>
                 /\ idleThreadSize_' = idleThreadSize_ + 1
                 /\ UNCHANGED <<curThreadSize_, threads_, nOS>>
          /\ cl[c].pc \notin {"sMake", "sCur", "sIdle"} =>
                 UNCHANGED <<curThreadSize_, idleThreadSize_, threads_, nOS>>]_vars

\* C16: a worker that is executing a task does not own the queue mutex
C16_ExecOutsideLock == \A s \in Slots : wk[s].pc = "exec" => mtx # W(s)

\* a worker is executing a task while a client inside submitTask owns the
\* mutex and a second worker is at the head of its loop waiting for it
C16_Witness ==
    /\ \E s \in Slots : wk[s].pc = "exec" /\ wk[s].task # NoTask
    /\ \E c \in Clients : mtx = C(c)
    /\ \E s \in Slots : wk[s].pc = "lock"

\* C17: a step that changes idle_threads, current_threads or queued_tasks is
\* taken by the thread that owns the queue mutex
C17_CountersUnderLock ==
    [][(idleThreadSize_' # idleThreadSize_ \/ curThreadSize_' # curThreadSize_
          \/ taskSize_' # taskSize_) =>
          \/ mtx = Main /\ main' # main
          \/ \E s \in Slots : mtx = W(s) /\ wk'[s] # wk[s]
          \/ \E c \in Clients : mtx = C(c) /\ cl'[c] # cl[c]]_vars

C19_ShutdownDrains ==
    \A t \in Tasks :
        []((main.pc = "d53" /\ t \in Range(taskQue_) /\ DOMAIN threads_ # {}) =>
               [](main.pc = "done" => execCount[t] = 1))

\* C20: between the return of start and shutdown, whenever the mutex is
\* free, current_threads is the size of the live worker set
C20_CurrentIsLiveSetSize ==
    (Started /\ mtx = Free) => curThreadSize_ = Cardinality(DOMAIN threads_)

====
